---- MODULE Spec2Model ----
(***************************************************************************)
(* State-machine model of SealedBidAuctionFactory (src/src/lib.rs).        *)
(*                                                                         *)
(* Every public entry point is one atomic action (the host serialises the  *)
(* calls and commits or reverts a call as a whole).  Addresses and byte    *)
(* strings are sequences of byte values; U256 values are naturals.  The    *)
(* variables lastCall, lastResult and successes are history variables: they*)
(* record the call that produced the current state and what it returned.   *)
(* The salt derivation is also examined on its own (SaltSpec), where probe *)
(* holds two field lists and their salts.                                  *)
(***************************************************************************)
EXTENDS Integers, Sequences, FiniteSets, TLC

\* ---------------------------------------------------------------- bounds
\* create_auction is explored while auction_count < MaxCount
MaxCount == 2
\* number of distinct externally owned accounts that send calls
NumCallers == 2

\* ------------------------------------------------------ program constants
\* width in bytes of alloy_primitives::Address
ADDRESS_LEN == 20
\* width in bytes of alloy_primitives::U256 / B256
WORD_LEN == 32

\* ------------------------------------------------------------ byte codecs
RECURSIVE as_le_bytes(_, _)
\* U256::as_le_bytes : little-endian, fixed width w
as_le_bytes(n, w) ==
    IF w = 0 THEN <<>> ELSE <<n % 256>> \o as_le_bytes(n \div 256, w - 1)

RECURSIVE as_slice(_, _)
\* Address::as_slice : the address' bytes, big-endian, fixed width w
as_slice(n, w) ==
    IF w = 0 THEN <<>> ELSE as_slice(n \div 256, w - 1) \o <<n % 256>>

\* An address is its 20 bytes
AddressOf(n) == as_slice(n, ADDRESS_LEN)

\* Address::ZERO
ZERO == AddressOf(0)

\* msg::sender() ranges over the accounts 0x0a, 0x0b, ... (never the zero address)
Callers == {AddressOf(10 + i) : i \in 0 .. (NumCallers - 1)}

\* values offered for the nft_contract argument
NftContracts == {ZERO, AddressOf(1)}
\* values offered for token_id
TokenIds == {5}
\* values offered for reserve_price
ReservePrices == {100}
\* values offered for commit_duration
CommitDurations == {0, 3600}
\* values offered for reveal_duration
RevealDurations == {0, 1800}
\* values offered for min_deposit
MinDeposits == {0, 10}

\* the argument lists of create_auction
Args ==
    [nft_contract : NftContracts, token_id : TokenIds,
     reserve_price : ReservePrices, commit_duration : CommitDurations,
     reveal_duration : RevealDurations, min_deposit : MinDeposits]

\* error payloads the deploy primitive can hand back (revert data)
Payloads == {"", "oog"}

\* what the host decides for one deploy attempt
DeployOutcomes == [kind : {"deployed"}, data : {""}] \cup [kind : {"revert"}, data : Payloads]

\* ids the accessors are queried with: 0, the assignable ids, and one beyond
Ids == 0 .. (MaxCount + 1)

\* ------------------------------------------------------------ Result<T,E>
Ok(v) == [ok |-> TRUE, val |-> v, err |-> ""]
Err(e) == [ok |-> FALSE, val |-> <<>>, err |-> e]

\* the deploy primitive was not reached by the call
NotInvoked == [invoked |-> FALSE, ok |-> FALSE, val |-> <<>>, err |-> ""]

\* no salt derivation is under comparison
NoProbe == [done |-> FALSE, x |-> <<>>, y |-> <<>>, sx |-> <<>>, sy |-> <<>>]

\* ------------------------------------------------------------------ state
VARIABLES
    auction_count,  \* uint256 auction_count
    auctions,       \* mapping(uint256 => address) auctions
    creators,       \* mapping(uint256 => address) creators
    owner,          \* address owner
    paused,         \* bool paused
    lastCall,       \* history: the call that produced this state
    lastResult,     \* history: what that call returned
    successes,      \* history: number of create_auction calls that returned Ok
    initialized,    \* history: some call of new() has returned Ok
    probe           \* two salt derivations side by side (salt specification)

storage == <<auction_count, auctions, creators, owner, paused>>
vars == <<auction_count, auctions, creators, owner, paused,
          lastCall, lastResult, successes, initialized, probe>>

\* the zero-valued genesis state
Init ==
    /\ auction_count = 0
    /\ auctions = [i \in Ids |-> ZERO]
    /\ creators = [i \in Ids |-> ZERO]
    /\ owner = ZERO
    /\ paused = FALSE
    /\ lastCall = [op |-> "genesis", sender |-> ZERO, args |-> <<>>,
                    host |-> NotInvoked]
    /\ lastResult = Ok(<<>>)
    /\ successes = 0
    /\ initialized = FALSE
    /\ probe = NoProbe

\* ------------------------------------------------------------- accessors
get_auction(id) == auctions[id]
get_creator(id) == creators[id]
get_auction_count == auction_count
get_owner == owner
is_paused == paused

\* ------------------------------------------------------------ operations
\* an early `return Err(e)`: nothing is written
reject(e) ==
    /\ lastResult' = Err(e)
    /\ UNCHANGED <<auction_count, auctions, creators, owner, paused,
                   successes, initialized, probe>>

\* the record of a call that does not reach the deploy primitive
Call(op, sender, a) ==
    [op |-> op, sender |-> sender, args |-> a, host |-> NotInvoked]

\* only_owner without the comparison: every sender passes
only_owner_anyone(sender) ==
    Ok(<<>>)

\* only_owner: Err unless msg::sender() is the stored owner
only_owner(sender) ==
    IF sender # owner THEN Err("Only owner") ELSE Ok(<<>>)

\* new() without the owner check: it initializes on every call
new_unguarded(sender) ==
    /\ lastCall' = Call("new", sender, <<>>)
    /\ auction_count' = 0
    /\ owner' = sender
    /\ paused' = FALSE
    /\ lastResult' = Ok(<<>>)
    /\ initialized' = TRUE
    /\ UNCHANGED <<auctions, creators, successes, probe>>

\* new() that takes an empty registry, not an empty owner, for "uninitialized"
new_guard_on_count(sender) ==
    /\ lastCall' = Call("new", sender, <<>>)
    /\ IF auction_count # 0
       THEN reject("Already initialized")
       ELSE /\ auction_count' = 0
            /\ owner' = sender
            /\ paused' = FALSE
            /\ lastResult' = Ok(<<>>)
            /\ initialized' = TRUE
            /\ UNCHANGED <<auctions, creators, successes, probe>>

\* new() that also empties the registry and the creator log
new_clears_registry(sender) ==
    /\ lastCall' = Call("new", sender, <<>>)
    /\ IF owner # ZERO
       THEN reject("Already initialized")
       ELSE /\ auction_count' = 0
            /\ auctions' = [i \in Ids |-> ZERO]
            /\ creators' = [i \in Ids |-> ZERO]
            /\ owner' = sender
            /\ paused' = FALSE
            /\ lastResult' = Ok(<<>>)
            /\ initialized' = TRUE
            /\ UNCHANGED <<successes, probe>>

\* new() that starts the counter at 1
new_counter_one(sender) ==
    /\ lastCall' = Call("new", sender, <<>>)
    /\ IF owner # ZERO
       THEN reject("Already initialized")
       ELSE /\ auction_count' = 1
            /\ owner' = sender
            /\ paused' = FALSE
            /\ lastResult' = Ok(<<>>)
            /\ initialized' = TRUE
            /\ UNCHANGED <<auctions, creators, successes, probe>>

\* new(): initialize the factory
new(sender) ==
    /\ lastCall' = Call("new", sender, <<>>)
    /\ IF owner # ZERO
       THEN reject("Already initialized")
       ELSE /\ auction_count' = 0
            /\ owner' = sender
            /\ paused' = FALSE
            /\ lastResult' = Ok(<<>>)
            /\ initialized' = TRUE
            /\ UNCHANGED <<auctions, creators, successes, probe>>

\* pause() that flips the flag
pause_toggle(sender) ==
    /\ lastCall' = Call("pause", sender, <<>>)
    /\ IF ~only_owner(sender).ok
       THEN reject(only_owner(sender).err)
       ELSE /\ paused' = ~paused
            /\ lastResult' = Ok(<<>>)
            /\ UNCHANGED <<auction_count, auctions, creators, owner,
                           successes, initialized, probe>>

\* pause() without the owner check
pause_unchecked(sender) ==
    /\ lastCall' = Call("pause", sender, <<>>)
    /\ paused' = TRUE
    /\ lastResult' = Ok(<<>>)
    /\ UNCHANGED <<auction_count, auctions, creators, owner,
                   successes, initialized, probe>>

\* pause(): owner only
pause(sender) ==
    /\ lastCall' = Call("pause", sender, <<>>)
    /\ IF ~only_owner(sender).ok
       THEN reject(only_owner(sender).err)
       ELSE /\ paused' = TRUE
            /\ lastResult' = Ok(<<>>)
            /\ UNCHANGED <<auction_count, auctions, creators, owner,
                           successes, initialized, probe>>

\* unpause(): owner only
unpause(sender) ==
    /\ lastCall' = Call("unpause", sender, <<>>)
    /\ IF ~only_owner(sender).ok
       THEN reject(only_owner(sender).err)
       ELSE /\ paused' = FALSE
            /\ lastResult' = Ok(<<>>)
            /\ UNCHANGED <<auction_count, auctions, creators, owner,
                           successes, initialized, probe>>

\* the checks without the pause gate
check_args_no_pause(a) ==
    IF a.nft_contract = ZERO THEN "Invalid NFT contract"
    ELSE IF a.reveal_duration = 0 THEN "Reveal duration must be > 0"
    ELSE IF a.commit_duration = 0 THEN "Commit duration must be > 0"
    ELSE IF a.min_deposit = 0 THEN "Min deposit must be > 0"
    ELSE ""

\* the checks with commit_duration tested before reveal_duration
check_args_commit_first(a) ==
    IF paused THEN "Factory is paused"
    ELSE IF a.nft_contract = ZERO THEN "Invalid NFT contract"
    ELSE IF a.commit_duration = 0 THEN "Commit duration must be > 0"
    ELSE IF a.reveal_duration = 0 THEN "Reveal duration must be > 0"
    ELSE IF a.min_deposit = 0 THEN "Min deposit must be > 0"
    ELSE ""

\* the checks preceded by a test that the factory has an owner
check_args_requires_init(a) ==
    IF owner = ZERO THEN "Not initialized"
    ELSE IF paused THEN "Factory is paused"
    ELSE IF a.nft_contract = ZERO THEN "Invalid NFT contract"
    ELSE IF a.reveal_duration = 0 THEN "Reveal duration must be > 0"
    ELSE IF a.commit_duration = 0 THEN "Commit duration must be > 0"
    ELSE IF a.min_deposit = 0 THEN "Min deposit must be > 0"
    ELSE ""

\* create_auction, lines 93-108: the message of the first failing check, "" if none
check_args(a) ==
    IF paused THEN "Factory is paused"
    ELSE IF a.nft_contract = ZERO THEN "Invalid NFT contract"
    ELSE IF a.reveal_duration = 0 THEN "Reveal duration must be > 0"
    ELSE IF a.commit_duration = 0 THEN "Commit duration must be > 0"
    ELSE IF a.min_deposit = 0 THEN "Min deposit must be > 0"
    ELSE ""

\* the preimage without the token id
salt_preimage_no_token(next_id, creator, a) ==
    as_le_bytes(next_id, WORD_LEN) \o creator \o a.nft_contract
        \o as_le_bytes(a.reserve_price, WORD_LEN)
        \o as_le_bytes(a.commit_duration, WORD_LEN)
        \o as_le_bytes(a.reveal_duration, WORD_LEN)
        \o as_le_bytes(a.min_deposit, WORD_LEN)

\* the preimage without the candidate id
salt_preimage_no_id(next_id, creator, a) ==
    creator \o a.nft_contract
        \o as_le_bytes(a.token_id, WORD_LEN)
        \o as_le_bytes(a.reserve_price, WORD_LEN)
        \o as_le_bytes(a.commit_duration, WORD_LEN)
        \o as_le_bytes(a.reveal_duration, WORD_LEN)
        \o as_le_bytes(a.min_deposit, WORD_LEN)

\* create_auction, lines 115-123: the bytes that are hashed into the salt
salt_preimage(next_id, creator, a) ==
    as_le_bytes(next_id, WORD_LEN) \o creator \o a.nft_contract
        \o as_le_bytes(a.token_id, WORD_LEN)
        \o as_le_bytes(a.reserve_price, WORD_LEN)
        \o as_le_bytes(a.commit_duration, WORD_LEN)
        \o as_le_bytes(a.reveal_duration, WORD_LEN)
        \o as_le_bytes(a.min_deposit, WORD_LEN)

\* crypto::keccak, a collision-free hash: the digest of a byte string is
\* represented by the string behind the tag 256, which is no byte value
keccak(bytes) == <<256>> \o bytes

\* create_auction, lines 115-125: the salt of a deployment
derive_salt(next_id, creator, a) ==
    keccak(salt_preimage(next_id, creator, a))

\* the CREATE2 address of the embedded module for a salt: the digest of
\* 0xff ++ salt (deployer and module image are fixed)
Create2Address(salt) == keccak(<<255>> \o salt)

\* RawDeploy::deploy: as the host decides, the module is placed at the CREATE2
\* address of the salt, or the call fails with revert data
RawDeploy(salt, outcome) ==
    IF outcome.kind = "deployed"
    THEN [invoked |-> TRUE, ok |-> TRUE, val |-> Create2Address(salt), err |-> ""]
    ELSE [invoked |-> TRUE, ok |-> FALSE, val |-> <<>>, err |-> outcome.data]

\* map_err that reports the failure and drops the payload
map_err_drop_payload(e) ==
    "Deployment failed"

\* the map_err closure of create_auction
map_err(e) ==
    "Deployment failed: " \o e

\* the book-keeping without the creator log write
book_keeping_no_creator(next_id, instance, creator) ==
    /\ auctions' = [auctions EXCEPT ![next_id] = instance]
    /\ creators' = creators
    /\ auction_count' = next_id

\* the book-keeping that files the instance under the old counter value
book_keeping_at_count(next_id, instance, creator) ==
    /\ auctions' = [auctions EXCEPT ![auction_count] = instance]
    /\ creators' = [creators EXCEPT ![auction_count] = creator]
    /\ auction_count' = next_id

\* create_auction, lines 139-142: registry, creator log and counter
book_keeping(next_id, instance, creator) ==
    /\ auctions' = [auctions EXCEPT ![next_id] = instance]
    /\ creators' = [creators EXCEPT ![next_id] = creator]
    /\ auction_count' = next_id

\* create_auction that claims the id before it deploys and keeps the claim
\* when the deploy primitive fails
create_auction_early_count(sender, a) ==
    /\ auction_count < MaxCount
    /\ LET failed == check_args(a)
           next_id == auction_count + 1
           creator == sender
           salt == derive_salt(next_id, creator, a)
       IN  IF failed # ""
           THEN /\ lastCall' = Call("create_auction", sender, a)
                /\ reject(failed)
           ELSE \E outcome \in DeployOutcomes :
                  LET d == RawDeploy(salt, outcome)
                  IN  /\ lastCall' = [op |-> "create_auction", sender |-> sender,
                                      args |-> a, host |-> d]
                      /\ auction_count' = next_id
                      /\ IF ~d.ok
                         THEN /\ lastResult' = Err(map_err(d.err))
                              /\ UNCHANGED <<auctions, creators, owner, paused,
                                             successes, initialized, probe>>
                         ELSE /\ auctions' = [auctions EXCEPT ![next_id] = d.val]
                              /\ creators' = [creators EXCEPT ![next_id] = creator]
                              /\ lastResult' = Ok(d.val)
                              /\ successes' = successes + 1
                              /\ UNCHANGED <<owner, paused, initialized, probe>>

\* create_auction(...): validate, derive the salt, deploy, book-keep
create_auction(sender, a) ==
    /\ auction_count < MaxCount
    /\ LET failed == check_args(a)
           next_id == auction_count + 1
           creator == sender
           salt == derive_salt(next_id, creator, a)
       IN  IF failed # ""
           THEN /\ lastCall' = Call("create_auction", sender, a)
                /\ reject(failed)
           ELSE \E outcome \in DeployOutcomes :
                  LET d == RawDeploy(salt, outcome)
                  IN  /\ lastCall' = [op |-> "create_auction", sender |-> sender,
                                      args |-> a, host |-> d]
                      /\ IF ~d.ok
                         THEN reject(map_err(d.err))
                         ELSE /\ book_keeping(next_id, d.val, creator)
                              /\ lastResult' = Ok(d.val)
                              /\ successes' = successes + 1
                              /\ UNCHANGED <<owner, paused, initialized, probe>>

\* ------------------------------------------------------------ the system
Next ==
    \/ \E sender \in Callers : new(sender)
    \/ \E sender \in Callers : pause(sender)
    \/ \E sender \in Callers : unpause(sender)
    \/ \E sender \in Callers, a \in Args : create_auction(sender, a)

Spec == Init /\ [][Next]_vars

\* ------------------------------------------- the salt derivation alone
\* candidate ids offered to the salt derivation
SaltIds == {1, 2}

\* the eight fields of a salt derivation, two values per field; the two
\* durations and the deposit share values, and 5 and 261 share their low byte
SaltInputs ==
    [next_id : SaltIds, creator : Callers,
     nft_contract : {AddressOf(1), AddressOf(256)}, token_id : {5, 261},
     reserve_price : {0, 100}, commit_duration : {1800, 3600},
     reveal_duration : {1800, 3600}, min_deposit : {10, 1800}]

\* the create_auction arguments among the fields of a derivation
ArgsOf(f) ==
    [nft_contract |-> f.nft_contract, token_id |-> f.token_id,
     reserve_price |-> f.reserve_price, commit_duration |-> f.commit_duration,
     reveal_duration |-> f.reveal_duration, min_deposit |-> f.min_deposit]

\* any two field lists, on the genesis storage
SaltInit ==
    /\ auction_count = 0
    /\ auctions = [i \in Ids |-> ZERO]
    /\ creators = [i \in Ids |-> ZERO]
    /\ owner = ZERO
    /\ paused = FALSE
    /\ lastCall = [op |-> "genesis", sender |-> ZERO, args |-> <<>>,
                    host |-> NotInvoked]
    /\ lastResult = Ok(<<>>)
    /\ successes = 0
    /\ initialized = FALSE
    /\ \E x \in SaltInputs, y \in SaltInputs :
          probe = [done |-> FALSE, x |-> x, y |-> y, sx |-> <<>>, sy |-> <<>>]

\* derive the salt of both field lists as create_auction does
SaltDerive ==
    /\ ~probe.done
    /\ probe' = [probe EXCEPT
                   !.done = TRUE,
                   !.sx = derive_salt(probe.x.next_id, probe.x.creator,
                                      ArgsOf(probe.x)),
                   !.sy = derive_salt(probe.y.next_id, probe.y.creator,
                                      ArgsOf(probe.y))]
    /\ UNCHANGED <<auction_count, auctions, creators, owner, paused,
                   lastCall, lastResult, successes, initialized>>

SaltNext == SaltDerive

SaltSpec == SaltInit /\ [][SaltNext]_vars

\* types of the state
TypeOK ==
    /\ auction_count \in 0 .. MaxCount
    /\ owner \in Callers \cup {ZERO}
    /\ paused \in BOOLEAN
    /\ \A id \in Ids : creators[id] \in Callers \cup {ZERO}
    /\ \A id \in Ids : auctions[id] \in Seq(0 .. 256)
    /\ successes \in 0 .. (2 * MaxCount)

\* ---------------------------------------------------------- properties
\* the five storage fields are the same after the step as before it
StorageUnchanged ==
    UNCHANGED <<auction_count, auctions, creators, owner, paused>>

\* the arguments pass every check of create_auction that looks at them
ValidArgs(a) ==
    /\ a.nft_contract # ZERO
    /\ a.commit_duration # 0
    /\ a.reveal_duration # 0
    /\ a.min_deposit # 0

\* C1: in every step the counter is unchanged or, on a successful
\* create_auction, exactly one larger than before; it never decreases.
C1_CounterNeverDecreases ==
    [][\/ auction_count' = auction_count
       \/ /\ lastCall'.op = "create_auction"
          /\ lastResult'.ok
          /\ auction_count' = auction_count + 1]_vars

\* C2: write-once registry: once get_auction(id) or get_creator(id) is not the
\* zero address it keeps that value in every later state.
C2_WriteOnceRegistry ==
    [][\A id \in Ids :
         /\ get_auction(id) # ZERO => auctions'[id] = auctions[id]
         /\ get_creator(id) # ZERO => creators'[id] = creators[id]]_vars

\* C3: in every reachable state get_auction_count() is the number of
\* create_auction calls that have succeeded since genesis.
C3_CountEqualsSuccesses ==
    get_auction_count = successes

\* C4: in every reachable state get_auction(id) and get_creator(id) are the
\* zero address for id = 0 and for every id above the counter.
C4_UnsetIdsAreZero ==
    \A id \in Ids :
        (id = 0 \/ id > auction_count)
            => (get_auction(id) = ZERO /\ get_creator(id) = ZERO)

\* C5: pause gate: a create_auction call made while paused is true returns the
\* "Factory is paused" error, whoever calls and whatever the arguments, and
\* writes nothing.
C5_PauseGate ==
    [][(paused /\ lastCall'.op = "create_auction")
          => /\ lastResult' = Err("Factory is paused")
             /\ StorageUnchanged]_vars

\* C5 witness: a paused factory has just refused a call whose arguments are valid
C5_Witness ==
    /\ paused
    /\ lastCall.op = "create_auction"
    /\ ValidArgs(lastCall.args)
    /\ lastResult = Err("Factory is paused")

\* C6: pause() and unpause() succeed only for the stored owner; from any other
\* caller, initialized or not, they return "Only owner" and write nothing.
C6_OnlyOwnerPauses ==
    [][(lastCall'.op \in {"pause", "unpause"})
          => /\ lastResult'.ok => lastCall'.sender = owner
             /\ lastCall'.sender # owner
                   => /\ lastResult' = Err("Only owner")
                      /\ StorageUnchanged]_vars

\* C6 witness: an initialized, unpaused factory has just refused pause() from a
\* caller that is not the owner
C6_Witness ==
    /\ lastCall.op = "pause"
    /\ owner # ZERO
    /\ lastCall.sender # owner
    /\ lastResult = Err("Only owner")
    /\ ~paused

\* C7: once new() has succeeded, every later new() call, by any caller, returns
\* "Already initialized" and leaves owner, counter, paused, registry and
\* creator log as they were.
C7_InitializeOnce ==
    [][(initialized /\ lastCall'.op = "new")
          => /\ lastResult' = Err("Already initialized")
             /\ StorageUnchanged]_vars

\* C7 witness: a second new(), from a caller other than the owner, was refused
\* on a factory that holds an auction and is paused
C7_Witness ==
    /\ initialized
    /\ lastCall.op = "new"
    /\ lastCall.sender # owner
    /\ lastResult = Err("Already initialized")
    /\ auction_count > 0
    /\ paused

\* C8: once owner is not the zero address it never changes; the only step that
\* writes owner is the first successful new().
C8_OwnerImmutable ==
    [][/\ owner # ZERO => owner' = owner
       /\ owner' # owner
             => (lastCall'.op = "new" /\ lastResult'.ok /\ ~initialized)]_vars

\* C8 witness: a caller other than the owner has just created an auction on an
\* initialized factory, and the owner is still an account that called new()
C8_Witness ==
    /\ owner \in Callers
    /\ lastCall.op = "create_auction"
    /\ lastCall.sender # owner
    /\ lastResult.ok

\* C9: atomicity on deploy failure: when the arguments pass validation and the
\* deploy primitive fails, the call returns "Deployment failed: " followed by
\* the primitive's payload and the counter, the registry, the creator log,
\* owner and paused are as before the call; a successful call made with
\* counter c is given id c + 1.
C9_DeployFailureAtomic ==
    [][/\ (lastCall'.op = "create_auction" /\ lastCall'.host.invoked
             /\ ~lastCall'.host.ok)
          => /\ lastResult' = Err("Deployment failed: " \o lastCall'.host.err)
             /\ StorageUnchanged
       /\ (lastCall'.op = "create_auction" /\ lastResult'.ok)
          => /\ auction_count' = auction_count + 1
             /\ auctions'[auction_count + 1] = lastResult'.val]_vars

\* C9 witness: a deployment has just failed with a non-empty payload on a
\* factory that holds one auction, and id 2 is still unassigned
C9_Witness ==
    /\ lastCall.op = "create_auction"
    /\ lastCall.host.invoked
    /\ ~lastCall.host.ok
    /\ lastCall.host.err # ""
    /\ ~lastResult.ok
    /\ auction_count = 1
    /\ get_auction(2) = ZERO
    /\ get_creator(2) = ZERO

\* the error of the first failing check in the order paused, nft_contract,
\* commit_duration, reveal_duration, min_deposit ("" if every check passes)
FirstErrorCommitBeforeReveal(p, a) ==
    IF p THEN "Factory is paused"
    ELSE IF a.nft_contract = ZERO THEN "Invalid NFT contract"
    ELSE IF a.commit_duration = 0 THEN "Commit duration must be > 0"
    ELSE IF a.reveal_duration = 0 THEN "Reveal duration must be > 0"
    ELSE IF a.min_deposit = 0 THEN "Min deposit must be > 0"
    ELSE ""

\* the error of the first failing check in the order paused, nft_contract,
\* reveal_duration, commit_duration, min_deposit ("" if every check passes)
FirstErrorRevealBeforeCommit(p, a) ==
    IF p THEN "Factory is paused"
    ELSE IF a.nft_contract = ZERO THEN "Invalid NFT contract"
    ELSE IF a.reveal_duration = 0 THEN "Reveal duration must be > 0"
    ELSE IF a.commit_duration = 0 THEN "Commit duration must be > 0"
    ELSE IF a.min_deposit = 0 THEN "Min deposit must be > 0"
    ELSE ""

\* C10 as stated: the checks run in the order paused, nft_contract empty,
\* commit_duration = 0, reveal_duration = 0, min_deposit = 0; the error returned
\* is that of the first failing check and a failing call writes nothing.
C10_ChecksCommitFirst ==
    [][(/\ lastCall'.op = "create_auction"
        /\ FirstErrorCommitBeforeReveal(paused, lastCall'.args) # "")
          => /\ lastResult' =
                   Err(FirstErrorCommitBeforeReveal(paused, lastCall'.args))
             /\ StorageUnchanged]_vars

\* C10 amended: the checks run in the order paused, nft_contract empty,
\* reveal_duration = 0, commit_duration = 0, min_deposit = 0; the error returned
\* is that of the first failing check and a failing call writes nothing.
C10_ChecksRevealFirst ==
    [][(/\ lastCall'.op = "create_auction"
        /\ FirstErrorRevealBeforeCommit(paused, lastCall'.args) # "")
          => /\ lastResult' =
                   Err(FirstErrorRevealBeforeCommit(paused, lastCall'.args))
             /\ StorageUnchanged]_vars

\* C10 witness: an unpaused factory was called with a real nft_contract and
\* both durations zero, and answered with the reveal-duration error
C10_Witness ==
    /\ lastCall.op = "create_auction"
    /\ ~paused
    /\ lastCall.args.nft_contract # ZERO
    /\ lastCall.args.commit_duration = 0
    /\ lastCall.args.reveal_duration = 0
    /\ lastResult = Err("Reveal duration must be > 0")

\* the step is a create_auction call that returned Ok
CreateSucceeded ==
    lastCall'.op = "create_auction" /\ lastResult'.ok

\* C11: registry and creator log are set together: in every state, for every
\* id, get_auction(id) is set if and only if get_creator(id) is set, and a step
\* that writes either entry of an id is a successful create_auction that
\* writes its deployed address and its caller under that id.
C11_SetTogether ==
    /\ [](\A id \in Ids : get_auction(id) # ZERO <=> get_creator(id) # ZERO)
    /\ [][\A id \in Ids :
            (auctions'[id] # auctions[id] \/ creators'[id] # creators[id])
               => /\ CreateSucceeded
                  /\ auctions'[id] = lastResult'.val
                  /\ creators'[id] = lastCall'.sender]_vars

\* C11 witness: a create_auction has just filled id 1 with an instance and its
\* caller, while id 2 is empty in both mappings
C11_Witness ==
    /\ lastCall.op = "create_auction"
    /\ lastResult.ok
    /\ get_auction(1) = lastResult.val
    /\ get_creator(1) = lastCall.sender
    /\ get_auction(2) = ZERO
    /\ get_creator(2) = ZERO

\* C12: a successful create_auction called with counter c stores the address
\* returned by the deploy primitive at auctions[c+1] and the caller at
\* creators[c+1], sets the counter to c+1, returns that address, and leaves
\* owner, paused and every other entry of both mappings unchanged.
C12_SuccessEffect ==
    [][CreateSucceeded
          => /\ lastCall'.host.ok
             /\ lastResult'.val = lastCall'.host.val
             /\ auctions' = [auctions EXCEPT
                                ![auction_count + 1] = lastCall'.host.val]
             /\ creators' = [creators EXCEPT
                                ![auction_count + 1] = lastCall'.sender]
             /\ auction_count' = auction_count + 1
             /\ owner' = owner
             /\ paused' = paused]_vars

\* C12 witness: a create_auction called with counter 1 has just stored its
\* instance and caller under id 2, next to the entry of id 1
C12_Witness ==
    /\ lastCall.op = "create_auction"
    /\ lastResult.ok
    /\ auction_count = 2
    /\ get_auction(2) = lastResult.val
    /\ get_creator(2) = lastCall.sender
    /\ get_auction(1) # ZERO
    /\ get_auction(1) # get_auction(2)

\* C13: deterministic salt: two derivations with the same candidate id,
\* caller, nft_contract, token_id, reserve_price, commit_duration,
\* reveal_duration and min_deposit give the same salt, and two derivations that
\* differ in any field give different salts (keccak taken as collision-free).
C13_SaltInjective ==
    probe.done => ((probe.sx = probe.sy) <=> (probe.x = probe.y))

\* C13 witness: two derivations that differ in the token id alone, by a
\* multiple of 256, have produced different salts
C13_Witness ==
    /\ probe.done
    /\ probe.x.token_id = 5
    /\ probe.y = [probe.x EXCEPT !.token_id = 261]
    /\ probe.sx # probe.sy

\* C14: distinct instances: in every state the instance addresses stored under
\* two different ids are different whenever both are set (the CREATE2 address
\* being an injective function of the salt).
C14_DistinctInstances ==
    \A i \in Ids, j \in Ids :
        (i # j /\ get_auction(i) # ZERO /\ get_auction(j) # ZERO)
            => get_auction(i) # get_auction(j)

\* C14 witness: ids 1 and 2 were both created by the same caller (the model
\* offers one valid argument list, so every field but the id coincides) and
\* hold different instances
C14_Witness ==
    /\ auction_count = 2
    /\ get_creator(1) # ZERO
    /\ get_creator(1) = get_creator(2)
    /\ get_auction(1) # ZERO
    /\ get_auction(2) # ZERO
    /\ get_auction(1) # get_auction(2)

\* the text every deployment error starts with
DeploymentFailedPrefix == "Deployment failed: "

\* what follows the prefix in an error
PayloadOf(err) == SubSeq(err, Len(DeploymentFailedPrefix) + 1, Len(err))

\* C15: when create_auction fails because the deploy primitive failed, the
\* error carries the primitive's payload unmodified: the error is a deployment
\* error and the bytes after its prefix are exactly the payload, so different
\* payloads give different errors and the payload can be read back.
C15_PayloadCarried ==
    [][(lastCall'.op = "create_auction" /\ lastCall'.host.invoked
          /\ ~lastCall'.host.ok)
          => /\ ~lastResult'.ok
             /\ Len(lastResult'.err) >= Len(DeploymentFailedPrefix)
             /\ SubSeq(lastResult'.err, 1, Len(DeploymentFailedPrefix))
                   = DeploymentFailedPrefix
             /\ PayloadOf(lastResult'.err) = lastCall'.host.err]_vars

\* C15 witness: the primitive has just failed with the payload "oog" and the
\* payload is read back from the error returned
C15_Witness ==
    /\ lastCall.op = "create_auction"
    /\ lastCall.host.invoked
    /\ lastCall.host.err = "oog"
    /\ lastResult.err = "Deployment failed: oog"
    /\ PayloadOf(lastResult.err) = "oog"

\* C16: new() called while owner is the zero address succeeds and leaves
\* owner = caller, counter = 0 and paused = false, with the registry and the
\* creator log as they were before the call.
C16_InitializeEffect ==
    [][(owner = ZERO /\ lastCall'.op = "new")
          => /\ lastResult' = Ok(<<>>)
             /\ owner' = lastCall'.sender
             /\ auction_count' = 0
             /\ paused' = FALSE
             /\ auctions' = auctions
             /\ creators' = creators]_vars

\* C16 witness: new() has just succeeded on a factory whose registry already
\* held an entry for id 1, and the entry is still there
C16_Witness ==
    /\ lastCall.op = "new"
    /\ lastResult.ok
    /\ owner = lastCall.sender
    /\ auction_count = 0
    /\ ~paused
    /\ get_auction(1) # ZERO
    /\ get_creator(1) # ZERO

\* C17: pause() and unpause() called by the owner succeed whatever paused is
\* and set it to true / false; repeating the call changes nothing further;
\* neither writes owner, counter, registry or creator log.
C17_PauseIdempotent ==
    [][/\ (lastCall'.op = "pause" /\ lastCall'.sender = owner)
          => /\ lastResult' = Ok(<<>>)
             /\ paused' = TRUE
             /\ paused => StorageUnchanged
             /\ UNCHANGED <<owner, auction_count, auctions, creators>>
       /\ (lastCall'.op = "unpause" /\ lastCall'.sender = owner)
          => /\ lastResult' = Ok(<<>>)
             /\ paused' = FALSE
             /\ ~paused => StorageUnchanged
             /\ UNCHANGED <<owner, auction_count, auctions, creators>>]_vars

\* C17 witness: the owner has just paused a factory that holds an auction
C17_Witness ==
    /\ lastCall.op = "pause"
    /\ lastCall.sender = owner
    /\ lastResult.ok
    /\ paused
    /\ auction_count > 0

\* C18: create_auction has no initialization or caller check: whenever the
\* factory is not paused and the arguments are valid, the deploy primitive is
\* invoked and the call succeeds exactly when the primitive does, whoever
\* calls and whether or not new() has run; from counter 0 (the genesis state
\* included) a success registers id 1 and sets the counter to 1.
C18_NoInitCheck ==
    [][(lastCall'.op = "create_auction" /\ ~paused
          /\ ValidArgs(lastCall'.args))
          => /\ lastCall'.host.invoked
             /\ lastResult'.ok <=> lastCall'.host.ok
             /\ (lastCall'.host.ok /\ auction_count = 0)
                   => /\ auction_count' = 1
                      /\ auctions'[1] = lastResult'.val
                      /\ creators'[1] = lastCall'.sender]_vars

\* C18 witness: the first successful call was a create_auction on the
\* uninitialized factory, and it registered id 1
C18_Witness ==
    /\ owner = ZERO
    /\ ~initialized
    /\ lastCall.op = "create_auction"
    /\ lastResult.ok
    /\ successes = 1
    /\ auction_count = 1
    /\ get_auction(1) = lastResult.val

\* C19: no gaps below the counter: in every state, for every id with
\* 1 <= id <= counter, get_auction(id) and get_creator(id) are both set.
C19_NoGaps ==
    \A id \in Ids :
        (1 <= id /\ id <= auction_count)
            => (get_auction(id) # ZERO /\ get_creator(id) # ZERO)

\* C19 witness: the counter is back at 2 after new() had reset it, and ids 1
\* and 2 are both set
C19_Witness ==
    /\ initialized
    /\ auction_count = 2
    /\ successes > 2
    /\ get_auction(1) # ZERO
    /\ get_auction(2) # ZERO

\* C20: in every state paused = true implies that owner is not the zero
\* address: the factory can be paused only after a successful new().
C20_PausedImpliesOwner ==
    paused => owner # ZERO

\* C20 witness: a paused factory, whose owner is one of the calling accounts
C20_Witness ==
    /\ paused
    /\ initialized
    /\ owner \in Callers

====
